---- MODULE Spec2Model ----
(***************************************************************************)
(* Model of the note recognizer of recorder-royale,                        *)
(* src/note_recognizer.py, and of the card cycling of its control server,  *)
(* src/control_server.py and src/mouse_controller.py.                      *)
(*                                                                         *)
(* Times are integers in units of 10 ms (time.time() is modelled by the    *)
(* variable clock, which never decreases).  None is the string "None".     *)
(*                                                                         *)
(* Four specifications share the definitions of the detector:              *)
(*   Spec        one loop context processing classification ticks; a tick  *)
(*               is one pass through lines 149-193 of process_audio for a  *)
(*               block whose classification (lines 128-149) is given;      *)
(*   SpecScript  the same loop context, its ticks taken at the times of    *)
(*               the scripted end-to-end scenario;                         *)
(*   SpecLife    start(), stop() and the loop threads, interleaved;        *)
(*   SpecLoop    one loop thread, step by step, and stop().                *)
(* Three more specifications model what is around the detector:            *)
(*   SpecStab      lines 131-149 of process_audio: the frequency estimate  *)
(*                 of a block, the window freq_buffer, the stabilized      *)
(*                 frequency and its classification;                       *)
(*   SpecClassify  frequency_to_note applied to frequencies around the     *)
(*                 ends of the intervals of NOTE_RANGES;                   *)
(*   SpecServer    the control actions of ControlServer, socket commands   *)
(*                 and keyboard hotkeys, on its MouseController.           *)
(* Frequencies are integers in units of 1/8192 Hz, in which the bins of    *)
(* the FFT (multiples of 44100/4096 Hz), the medians of two bins and the   *)
(* ends of the intervals are all exact.                                    *)
(***************************************************************************)
EXTENDS Integers, Sequences, FiniteSets, TLC

VARIABLES
    running,              \* self.running
    stream,               \* self.stream: 0 (None) or the id of a stream
    current_note,         \* self.current_note
    note_start_time,      \* self.note_start_time
    last_detection_time,  \* self.last_detection_time
    clock,                \* the last value time.time() returned
    tick,                 \* history: what the last processed tick did
    runFirst,             \* history: first tick that classified the run's symbol
    runLast,              \* history: last tick that classified the run's symbol
    runCalls,             \* history: callback invocations made for the current run
    anyRaise,             \* history: some callback invocation has raised
    gap,                  \* history: the dropout gap in progress, if any
    scriptPos,            \* history: how much of Script the ticks so far have followed
    pc,                   \* per loop thread: its position in process_audio
    audio,                \* per loop thread: the classification of the block it read
    local,                \* per loop thread: detected_note, current_time at a callback
    streams,              \* per stream id: "unopened", "open", "stopped", "closed"
    caller,               \* the position of the thread that calls start() and stop()
    stopped,              \* history: stop() has returned normally, with no start() since
    lateCallback,         \* history: a callback was invoked while stopped
    inCallback,           \* history: number of callback invocations executing
    freq_buffer,          \* self.freq_buffer
    frequency,            \* process_audio: frequency
    stable_frequency,     \* process_audio: stable_frequency
    detected_note,        \* process_audio: detected_note
    current_card_cycle,   \* ControlServer.current_card_cycle
    last_action_was_card_select,  \* ControlServer.last_action_was_card_select
    state,                \* MouseController.state
    current_card,         \* MouseController.current_card, 0 for None
    mouse_pressed,        \* MouseController.mouse_pressed
    relative_x,           \* MouseController.relative_x
    relative_y,           \* MouseController.relative_y
    button,               \* the button of the virtual mouse: "up" or "down"
    lastControl,          \* history: the last control action: "none", "cycle", "other"
    buttonFault,          \* history: a press of a pressed button or a release of a released one
    sent,                 \* history: the commands the client has sent, in order
    wire,                 \* the bytes sent and not yet received
    handled               \* history: the commands handle_command was called with, in order

vars == << running, stream, current_note, note_start_time, last_detection_time,
           clock, tick, runFirst, runLast, runCalls, anyRaise, gap, scriptPos,
           pc, audio, local, streams, caller, stopped, lateCallback, inCallback,
           freq_buffer, frequency, stable_frequency, detected_note,
           current_card_cycle, last_action_was_card_select, state, current_card,
           mouse_pressed, relative_x, relative_y, button, lastControl,
           buttonFault, sent, wire, handled >>

sessionVars == << current_note, note_start_time, last_detection_time >>
historyVars == << tick, runFirst, runLast, runCalls, anyRaise, gap, scriptPos >>
lifeVars    == << pc, audio, local, streams, caller, stopped, lateCallback, inCallback >>
frontVars   == << freq_buffer, frequency, stable_frequency, detected_note >>
mouseVars   == << state, current_card, mouse_pressed, relative_x, relative_y, button,
                  buttonFault >>
wireVars    == << sent, wire, handled >>
serverVars  == << current_card_cycle, last_action_was_card_select, mouseVars, lastControl >>
outerVars   == << frontVars, serverVars, wireVars >>

None == "None"

(***************************************************************************)
(* Program constants, in units of 10 ms.                                   *)
(***************************************************************************)
MIN_NOTE_DURATION == 5
SILENCE_THRESHOLD == 10
DROPOUT_TOLERANCE == 5

\* The symbols of NOTE_RANGES.
Notes == {"C", "D", "E", "F", "G", "A"}

(***************************************************************************)
(* Bounds of the model.                                                    *)
(***************************************************************************)
MaxTime  == 16   \* ticks are taken while the clock is at most MaxTime
MaxDelta == 9    \* the longest time between two reads of the clock
MaxLag   == 1    \* the longest time between the two reads of one tick
MaxThreads == 2  \* the loop threads start() may create
LifeStep == 5    \* the time that passes in one step of SpecLife
MaxLifeTime == 10  \* time passes in SpecLife while the clock is at most MaxLifeTime
MaxCalls == 2    \* the history counts the callback invocations of a run up to MaxCalls

\* The symbols the ticks of the model classify.
TickNotes == {"A", "D"}

(***************************************************************************)
(* The note session: current_note, note_start_time, last_detection_time.   *)
(***************************************************************************)
Session == [note |-> current_note, start |-> note_start_time, last |-> last_detection_time]

\* Seen without the assignment of line 154.
Seen_keepsLast(s, now) == s

\* Lines 153-154: a classified symbol sets last_detection_time.
Seen(s, now) == [s EXCEPT !.last = now]

\* OpenRun without the assignment of note_start_time.
OpenRun_keepsStart(s, det, now) == [s EXCEPT !.note = det]

\* Lines 158-159 and 169-170: a run of the detected symbol begins.
OpenRun(s, det, now) == [s EXCEPT !.note = det, !.start = now]

\* CloseRun without the assignment of line 189.
CloseRun_keepsNote(s) == s

\* Line 189: the run is cleared.
CloseRun(s) == [s EXCEPT !.note = None]

\* LongEnough with the threshold off by one.
LongEnough_offByOne(d) == d >= MIN_NOTE_DURATION - 1

\* Line 165 and line 185: the duration that lets a closed run reach the callback.
LongEnough(d) == d >= MIN_NOTE_DURATION

\* SilenceEnds with the test of line 180 alone.
SilenceEnds_toleranceOnly(drop, silence) == silence >= drop

\* SilenceEnds without the two tolerances: any tick with no classification ends the run.
SilenceEnds_noTolerance(drop, silence) == silence >= 0

\* Lines 180-182: the silence that ends a run.
SilenceEnds(drop, silence) == silence >= drop /\ silence >= SILENCE_THRESHOLD

\* SilenceDuration measured up to the tick, as ChangeDuration is.
SilenceDuration_toNow(s, now2) == now2 - s.start

\* Lines 164 and 184: the duration of the run being closed.
ChangeDuration(s, now) == now - s.start
SilenceDuration(s, now2) == s.last - s.start

(***************************************************************************)
(* Lines 153-189 up to the point where the callback is called or the tick  *)
(* ends without one.  det is detected_note, now the time read at line 151, *)
(* now2 the time read at line 176.  The result holds the session at that   *)
(* point, the symbol given to the callback (None: no call), the duration   *)
(* computed for it, and the branch that made the call.                     *)
(***************************************************************************)
BeforeCallback(drop, s, det, now, now2) ==
    IF det # None
    THEN LET s1 == Seen(s, now) IN
         IF s.note = None
         THEN [sess |-> OpenRun(s1, det, now), cb |-> None, dur |-> 0, branch |-> "new"]
         ELSE IF det # s.note
         THEN IF LongEnough(ChangeDuration(s1, now))
              THEN [sess |-> s1, cb |-> s.note, dur |-> ChangeDuration(s1, now),
                    branch |-> "change"]
              ELSE [sess |-> OpenRun(s1, det, now), cb |-> None,
                    dur |-> ChangeDuration(s1, now), branch |-> "change"]
         ELSE [sess |-> s1, cb |-> None, dur |-> 0, branch |-> "same"]
    ELSE IF s.note # None /\ SilenceEnds(drop, now2 - s.last)
         THEN IF LongEnough(SilenceDuration(s, now2))
              THEN [sess |-> s, cb |-> s.note, dur |-> SilenceDuration(s, now2),
                    branch |-> "silence"]
              ELSE [sess |-> CloseRun(s), cb |-> None, dur |-> SilenceDuration(s, now2),
                    branch |-> "silence"]
         ELSE [sess |-> s, cb |-> None, dur |-> 0, branch |-> "none"]

(***************************************************************************)
(* The statements after a callback that returned: lines 169-170 in the     *)
(* symbol-change branch, line 189 in the silence branch.  A callback that  *)
(* raises leaves through the handler of line 191 and skips them.           *)
(***************************************************************************)
AfterCallback(s, branch, det, now, raised) ==
    IF raised THEN s
    ELSE IF branch = "change" THEN OpenRun(s, det, now)
    ELSE CloseRun(s)

\* One whole tick: lines 153-193 for one classification.
Detect(drop, s, det, now, now2, raised) ==
    LET b == BeforeCallback(drop, s, det, now, now2) IN
    IF b.cb = None
    THEN [sess |-> b.sess, cb |-> None, dur |-> b.dur, branch |-> b.branch, raised |-> FALSE]
    ELSE [sess |-> AfterCallback(b.sess, b.branch, det, now, raised), cb |-> b.cb,
          dur |-> b.dur, branch |-> b.branch, raised |-> raised]

(***************************************************************************)
(* History of the ticks: kept for the properties, read by no action.       *)
(* tick describes the last tick: det its classification, cb the symbol     *)
(* given to the callback (None: no call), dur the duration computed for    *)
(* the run, branch the branch taken, raised whether the callback raised,   *)
(* calls the invocations made so far for the run the tick found, span the  *)
(* time from the first to the last tick that classified that run's symbol, *)
(* quiet the time since the last detection, inGap and resumed whether the  *)
(* tick was a dropout or resumed the run after dropouts, gapT0 the         *)
(* note_start_time when those dropouts began.                              *)
(***************************************************************************)
NoTick == [det |-> None, cb |-> None, dur |-> 0, branch |-> "init", raised |-> FALSE,
           calls |-> 0, span |-> 0, quiet |-> 0, inGap |-> FALSE, resumed |-> FALSE,
           gapT0 |-> 0]

NoGap == [on |-> FALSE, note |-> None, t0 |-> 0]

\* The scripted ticks of the end-to-end scenario, with D for its second symbol.
Script == << [det |-> "A", t |-> 0], [det |-> "A", t |-> 6], [det |-> None, t |-> 11],
             [det |-> "D", t |-> 20], [det |-> "D", t |-> 26] >>

OffScript == 0 - 1

\* A gap: a tick with no classification, in a run, less than DROPOUT_TOLERANCE
\* after the last detection.
IsDropout(s, det, now2) ==
    det = None /\ s.note # None /\ now2 - s.last < DROPOUT_TOLERANCE

Capped(n) == IF n < MaxCalls THEN n + 1 ELSE MaxCalls

Record(s, det, now, now2, r) ==
    /\ tick' = [det |-> det, cb |-> r.cb, dur |-> r.dur,
                branch |-> r.branch, raised |-> r.raised,
                calls |-> IF r.cb # None THEN Capped(runCalls) ELSE runCalls,
                span |-> IF r.cb # None THEN runLast - runFirst ELSE 0,
                quiet |-> IF s.note = None THEN 0
                          ELSE IF det = None THEN now2 - s.last ELSE now - s.last,
                inGap |-> IsDropout(s, det, now2),
                resumed |-> gap.on /\ det # None /\ det = gap.note,
                gapT0 |-> IF gap.on /\ det # None /\ det = gap.note THEN gap.t0 ELSE 0]
    /\ IF r.sess.note # s.note
       THEN /\ runFirst' = IF r.sess.note = None THEN 0 ELSE now
            /\ runLast' = IF r.sess.note = None THEN 0 ELSE now
            /\ runCalls' = 0
       ELSE /\ runFirst' = runFirst
            /\ runLast' = IF det # None /\ det = s.note THEN now ELSE runLast
            /\ runCalls' = IF r.cb # None THEN Capped(runCalls) ELSE runCalls
    /\ anyRaise' = (anyRaise \/ r.raised)
    /\ gap' = IF IsDropout(s, det, now2)
              THEN (IF gap.on THEN gap ELSE [on |-> TRUE, note |-> s.note, t0 |-> s.start])
              ELSE NoGap
    /\ scriptPos' = IF /\ scriptPos >= 0
                       /\ scriptPos < Len(Script)
                       /\ det = Script[scriptPos + 1].det
                       /\ now = Script[scriptPos + 1].t
                       /\ now2 = now
                    THEN scriptPos + 1
                    ELSE OffScript

(***************************************************************************)
(* Spec: one loop context.  Tick is one pass through the loop body for a   *)
(* block classified as det: the clock is read at line 151 (d after the     *)
(* last read) and, in the silence branch of a run, again at line 176 (e    *)
(* later); the callback, when called, returns or raises.                   *)
(***************************************************************************)
Threads == 1 .. MaxThreads

TickBody(det, d, e, raised) ==
    LET s == Session
        now == clock + d
        now2 == now + e
        r == Detect(DROPOUT_TOLERANCE, s, det, now, now2, raised)
    IN  /\ running
        /\ (e > 0 => det = None /\ s.note # None)
        /\ (raised => r.cb # None)
        /\ current_note' = r.sess.note
        /\ note_start_time' = r.sess.start
        /\ last_detection_time' = r.sess.last
        /\ clock' = now2
        /\ Record(s, det, now, now2, r)
        /\ UNCHANGED << running, stream >>
        /\ UNCHANGED lifeVars
        /\ UNCHANGED outerVars

Tick(det, d, e, raised) ==
    /\ clock + d <= MaxTime
    /\ TickBody(det, d, e, raised)

\* None as a frequency (lines 70, 85, 93, 146).
NoFrequency == 0 - 1

\* None as MouseController.current_card.
NoCard == 0

\* __init__, line 51, and the locals of process_audio before the first block.
InitFront ==
    /\ freq_buffer = << >>
    /\ frequency = NoFrequency
    /\ stable_frequency = NoFrequency
    /\ detected_note = None

\* ControlServer.__init__, lines 15-21, and MouseController.__init__.
InitServer ==
    /\ current_card_cycle = 0
    /\ last_action_was_card_select = FALSE
    /\ state = "idle"
    /\ current_card = NoCard
    /\ mouse_pressed = FALSE
    /\ relative_x = 0
    /\ relative_y = 0
    /\ button = "up"
    /\ buttonFault = FALSE
    /\ lastControl = "none"
    /\ sent = << >>
    /\ wire = << >>
    /\ handled = << >>

InitSession ==
    /\ current_note = None
    /\ note_start_time = 0
    /\ last_detection_time = 0

InitHistory ==
    /\ tick = NoTick
    /\ runFirst = 0
    /\ runLast = 0
    /\ runCalls = 0
    /\ anyRaise = FALSE
    /\ gap = NoGap
    /\ scriptPos = 0

\* The state of Spec: start() has run and thread 1 is in the loop, its stream open.
Init ==
    /\ InitSession
    /\ InitHistory
    /\ clock = 0
    /\ running = TRUE
    /\ stream = 1
    /\ pc = [t \in Threads |-> IF t = 1 THEN "loop" ELSE "unborn"]
    /\ audio = [t \in Threads |-> None]
    /\ local = [t \in Threads |-> [det |-> None, now |-> 0, branch |-> "none",
                                    err |-> "none"]]
    /\ streams = [t \in Threads |-> IF t = 1 THEN "open" ELSE "unopened"]
    /\ caller = "ready"
    /\ stopped = FALSE
    /\ lateCallback = FALSE
    /\ inCallback = 0
    /\ InitFront
    /\ InitServer

Next ==
    \E det \in TickNotes \cup {None}, d \in 0 .. MaxDelta, e \in 0 .. MaxLag,
       raised \in BOOLEAN :
        Tick(det, d, e, raised)

Spec == Init /\ [][Next]_vars

(***************************************************************************)
(* SpecScript: the loop context of Spec, its ticks taken at the times of   *)
(* Script, each with any classification and any outcome of the callback.   *)
(***************************************************************************)
ScriptTick(det, raised) ==
    \E k \in 1 .. Len(Script) :
        /\ IF k = 1 THEN tick = NoTick ELSE tick # NoTick /\ clock = Script[k - 1].t
        /\ TickBody(det, Script[k].t - clock, 0, raised)

NextScript ==
    \E det \in TickNotes \cup {None}, raised \in BOOLEAN : ScriptTick(det, raised)

SpecScript == Init /\ [][NextScript]_vars

(***************************************************************************)
(* SpecLife: one thread calls start() and stop(); each start() that finds  *)
(* running false creates a loop thread, which runs process_audio.  The     *)
(* steps of stop() and of process_audio are the points where they read or  *)
(* write running, stream, the streams and the session.  A block is given   *)
(* by its classification (lines 131-149).                                  *)
(***************************************************************************)
InLoop(t) == pc[t] \in {"read", "process", "detect", "callback", "handler"}

\* start(), lines 197-201.
Start ==
    /\ caller = "ready"
    /\ IF running
       THEN UNCHANGED << running, pc, stopped >>
       ELSE \E t \in Threads :
               /\ pc[t] = "unborn"
               /\ \A u \in Threads : u < t => pc[u] # "unborn"
               /\ running' = TRUE
               /\ pc' = [pc EXCEPT ![t] = "open"]
               /\ stopped' = FALSE
    /\ UNCHANGED << stream, clock, audio, local, streams, caller, lateCallback, inCallback >>
    /\ UNCHANGED sessionVars
    /\ UNCHANGED historyVars
    /\ UNCHANGED outerVars

\* stop(), lines 205-206.
StopBegin ==
    /\ caller = "ready"
    /\ IF running
       THEN /\ running' = FALSE
            /\ caller' = "stop_if_stream"
            /\ UNCHANGED stopped
       ELSE /\ stopped' = TRUE
            /\ UNCHANGED << running, caller >>
    /\ UNCHANGED << stream, clock, pc, audio, local, streams, lateCallback, inCallback >>
    /\ UNCHANGED sessionVars
    /\ UNCHANGED historyVars
    /\ UNCHANGED outerVars

\* stop(), line 207.
StopIfStream ==
    /\ caller = "stop_if_stream"
    /\ IF stream # 0
       THEN /\ caller' = "stop_stop_stream"
            /\ UNCHANGED stopped
       ELSE /\ caller' = "ready"
            /\ stopped' = TRUE
    /\ UNCHANGED << running, stream, clock, pc, audio, local, streams, lateCallback,
                    inCallback >>
    /\ UNCHANGED sessionVars
    /\ UNCHANGED historyVars
    /\ UNCHANGED outerVars

\* stop(), line 208: stop_stream() of a closed stream raises, and stop() ends.
StopStopStream ==
    /\ caller = "stop_stop_stream"
    /\ IF streams[stream] = "closed"
       THEN /\ caller' = "ready"
            /\ UNCHANGED << streams, stopped >>
       ELSE /\ caller' = "stop_close"
            /\ streams' = [streams EXCEPT ![stream] = "stopped"]
            /\ UNCHANGED stopped
    /\ UNCHANGED << running, stream, clock, pc, audio, local, lateCallback, inCallback >>
    /\ UNCHANGED sessionVars
    /\ UNCHANGED historyVars
    /\ UNCHANGED outerVars

\* stop(), lines 209-210.
StopClose ==
    /\ caller = "stop_close"
    /\ streams' = [streams EXCEPT ![stream] = "closed"]
    /\ caller' = "ready"
    /\ stopped' = TRUE
    /\ UNCHANGED << running, stream, clock, pc, audio, local, lateCallback, inCallback >>
    /\ UNCHANGED sessionVars
    /\ UNCHANGED historyVars
    /\ UNCHANGED outerVars

\* process_audio, lines 108-121: the stream opens, or the open raises.
Open(t, ok) ==
    /\ pc[t] = "open"
    /\ IF ok
       THEN /\ streams' = [streams EXCEPT ![t] = "open"]
            /\ stream' = t
            /\ pc' = [pc EXCEPT ![t] = "loop"]
            /\ UNCHANGED running
       ELSE /\ running' = FALSE
            /\ pc' = [pc EXCEPT ![t] = "done"]
            /\ UNCHANGED << stream, streams >>
    /\ UNCHANGED << clock, audio, local, caller, stopped, lateCallback, inCallback >>
    /\ UNCHANGED sessionVars
    /\ UNCHANGED historyVars
    /\ UNCHANGED outerVars

\* LoopTarget for a loop that does not test the flag.
LoopTarget_ignoresFlag(r) == "read"

\* Line 125: the loop body is entered while self.running is true.
LoopTarget(r) == IF r THEN "read" ELSE "done"

\* process_audio, line 125.
LoopTest(t) ==
    /\ pc[t] = "loop"
    /\ pc' = [pc EXCEPT ![t] = LoopTarget(running)]
    /\ UNCHANGED << running, stream, clock, audio, local, streams, caller, stopped,
                    lateCallback, inCallback >>
    /\ UNCHANGED sessionVars
    /\ UNCHANGED historyVars
    /\ UNCHANGED outerVars

\* process_audio, lines 149-189 as a failed read sees them: a read that raises
\* at line 128 jumps to line 191, so none of them runs and the session that
\* was there at time now is the session afterwards.
SkippedBlock_asSilentTick(s, now) == Detect(DROPOUT_TOLERANCE, s, None, now, now, FALSE).sess

SkippedBlock(s, now) == s

\* process_audio, lines 191-193: the handler is inside the while loop, so the
\* thread that leaves it is back at line 125.
HandlerExit_leavesLoop == "done"

HandlerExit == "loop"

\* process_audio, lines 128-149 and 191: the read of self.stream returns a
\* block classified det, or raises (it always raises once the stream is
\* stopped or closed) and the thread enters the handler.
Read(t, det, ok) ==
    LET s == SkippedBlock(Session, clock) IN
    /\ pc[t] = "read"
    /\ IF ok /\ streams[stream] = "open"
       THEN /\ audio' = [audio EXCEPT ![t] = det]
            /\ pc' = [pc EXCEPT ![t] = "process"]
            /\ UNCHANGED local
            /\ UNCHANGED sessionVars
       ELSE /\ det = None
            /\ pc' = [pc EXCEPT ![t] = "handler"]
            /\ local' = [local EXCEPT ![t].err = "read"]
            /\ current_note' = s.note
            /\ note_start_time' = s.start
            /\ last_detection_time' = s.last
            /\ UNCHANGED audio
    /\ UNCHANGED << running, stream, clock, streams, caller, stopped,
                    lateCallback, inCallback >>
    /\ UNCHANGED historyVars
    /\ UNCHANGED outerVars

\* process_audio, line 151: the thread reads the clock into current_time.
Stamp(t) ==
    /\ pc[t] = "process"
    /\ pc' = [pc EXCEPT ![t] = "detect"]
    /\ local' = [local EXCEPT ![t].now = clock]
    /\ UNCHANGED << running, stream, clock, audio, streams, caller, stopped,
                    lateCallback, inCallback >>
    /\ UNCHANGED sessionVars
    /\ UNCHANGED historyVars
    /\ UNCHANGED outerVars

\* process_audio, lines 153-189 up to the callback's call, with the
\* current_time of line 151 and the clock as line 176 reads it.  A tick that
\* ends here leaves current_time dead: the model clears it.
Process(t) ==
    LET b == BeforeCallback(DROPOUT_TOLERANCE, Session, audio[t], local[t].now, clock) IN
    /\ pc[t] = "detect"
    /\ current_note' = b.sess.note
    /\ note_start_time' = b.sess.start
    /\ last_detection_time' = b.sess.last
    /\ IF b.cb # None
       THEN /\ pc' = [pc EXCEPT ![t] = "callback"]
            /\ local' = [local EXCEPT ![t] = [det |-> audio[t], now |-> local[t].now,
                                               branch |-> b.branch, err |-> "none"]]
            /\ inCallback' = inCallback + 1
            /\ lateCallback' = (lateCallback \/ stopped)
       ELSE /\ pc' = [pc EXCEPT ![t] = "loop"]
            /\ local' = [local EXCEPT ![t].now = 0]
            /\ UNCHANGED << inCallback, lateCallback >>
    /\ UNCHANGED << running, stream, clock, audio, streams, caller, stopped >>
    /\ UNCHANGED historyVars
    /\ UNCHANGED outerVars

\* process_audio: the callback returns (lines 169-170, line 189) or raises
\* (lines 191-193).
CallbackEnd(t, raised) ==
    LET s == AfterCallback(Session, local[t].branch, local[t].det, local[t].now, raised) IN
    /\ pc[t] = "callback"
    /\ current_note' = s.note
    /\ note_start_time' = s.start
    /\ last_detection_time' = s.last
    /\ pc' = [pc EXCEPT ![t] = IF raised THEN "handler" ELSE "loop"]
    /\ local' = [local EXCEPT ![t].err = IF raised THEN "callback" ELSE "none"]
    /\ inCallback' = inCallback - 1
    /\ UNCHANGED << running, stream, clock, audio, streams, caller, stopped,
                    lateCallback >>
    /\ UNCHANGED historyVars
    /\ UNCHANGED outerVars

\* process_audio, lines 191-193: the handler prints, sleeps and ends.
Handler(t) ==
    /\ pc[t] = "handler"
    /\ pc' = [pc EXCEPT ![t] = HandlerExit]
    /\ local' = [local EXCEPT ![t].err = "none"]
    /\ UNCHANGED << running, stream, clock, audio, streams, caller, stopped,
                    lateCallback, inCallback >>
    /\ UNCHANGED sessionVars
    /\ UNCHANGED historyVars
    /\ UNCHANGED outerVars

\* Time passes.
Pass ==
    /\ clock + LifeStep <= MaxLifeTime
    /\ clock' = clock + LifeStep
    /\ UNCHANGED << running, stream >>
    /\ UNCHANGED sessionVars
    /\ UNCHANGED historyVars
    /\ UNCHANGED outerVars
    /\ UNCHANGED lifeVars

\* The state after __init__, lines 40-56.
InitLife ==
    /\ InitSession
    /\ InitHistory
    /\ clock = 0
    /\ running = FALSE
    /\ stream = 0
    /\ pc = [t \in Threads |-> "unborn"]
    /\ audio = [t \in Threads |-> None]
    /\ local = [t \in Threads |-> [det |-> None, now |-> 0, branch |-> "none",
                                    err |-> "none"]]
    /\ streams = [t \in Threads |-> "unopened"]
    /\ caller = "ready"
    /\ stopped = FALSE
    /\ lateCallback = FALSE
    /\ inCallback = 0
    /\ InitFront
    /\ InitServer

NextLife ==
    \/ Start
    \/ StopBegin
    \/ StopIfStream
    \/ StopStopStream
    \/ StopClose
    \/ Pass
    \/ \E t \in Threads, ok \in BOOLEAN : Open(t, ok)
    \/ \E t \in Threads : LoopTest(t)
    \/ \E t \in Threads, det \in TickNotes \cup {None}, ok \in BOOLEAN : Read(t, det, ok)
    \/ \E t \in Threads : Stamp(t)
    \/ \E t \in Threads : Process(t)
    \/ \E t \in Threads, raised \in BOOLEAN : CallbackEnd(t, raised)
    \/ \E t \in Threads : Handler(t)

SpecLife == InitLife /\ [][NextLife]_vars

\* One session of the loop, from the state of Init: thread 1 runs process_audio
\* step by step while the caller may call stop().
NextLoop ==
    \/ StopBegin
    \/ StopIfStream
    \/ StopStopStream
    \/ StopClose
    \/ Pass
    \/ LoopTest(1)
    \/ \E det \in TickNotes \cup {None}, ok \in BOOLEAN : Read(1, det, ok)
    \/ Stamp(1)
    \/ Process(1)
    \/ \E raised \in BOOLEAN : CallbackEnd(1, raised)
    \/ Handler(1)

SpecLoop == Init /\ [][NextLoop]_vars

\* The steps of loop thread t.
ThreadStep(t) ==
    \/ \E ok \in BOOLEAN : Open(t, ok)
    \/ LoopTest(t)
    \/ \E det \in TickNotes \cup {None}, ok \in BOOLEAN : Read(t, det, ok)
    \/ Stamp(t)
    \/ Process(t)
    \/ \E raised \in BOOLEAN : CallbackEnd(t, raised)
    \/ Handler(t)

\* SpecLoop and SpecLife with loop threads that are scheduled fairly: a thread
\* that can take a step takes one, so every read and every callback returns
\* or raises and the sleep of the handler ends.
SpecLoopFair == SpecLoop /\ WF_vars(ThreadStep(1))

SpecLifeFair == SpecLife /\ \A t \in Threads : WF_vars(ThreadStep(t))

(***************************************************************************)
(* Properties.                                                             *)
(***************************************************************************)

\* C1: while every callback has returned normally, a run causes at most one
\* callback invocation, and the tick that makes it closes the run: after it
\* current_note is no longer the emitted symbol and no invocation is left
\* attached to the run in progress.
C1_OneCallbackPerRun ==
    ~anyRaise =>
        /\ tick.calls <= 1
        /\ runCalls = 0
        /\ (tick.cb # None => current_note # tick.cb)

\* C1 witness: a run was closed by silence and emitted, no callback ever raised.
C1_Witness ==
    /\ ~anyRaise
    /\ tick.cb # None
    /\ tick.branch = "silence"
    /\ current_note = None

\* C2, as stated: the callback is never invoked for a run whose symbol was
\* classified for less than MIN_NOTE_DURATION (first to last classifying tick).
C2_ShortSpanNeverEmitted ==
    tick.cb # None => tick.span >= MIN_NOTE_DURATION

\* C2, amended: a tick invokes the callback only when the duration the
\* detector measures is at least MIN_NOTE_DURATION: the tick's time minus
\* note_start_time when a different symbol closes the run, and
\* last_detection_time minus note_start_time when silence closes it.
C2_ShortMeasuredNeverEmitted ==
    [][tick'.cb # None =>
          IF tick'.det # None
          THEN last_detection_time' - note_start_time >= MIN_NOTE_DURATION
          ELSE last_detection_time - note_start_time >= MIN_NOTE_DURATION]_vars

\* C2 witness: a different symbol closed a run measured shorter than
\* MIN_NOTE_DURATION, and the callback was not invoked.
C2_Witness ==
    /\ tick.branch = "change"
    /\ tick.cb = None
    /\ tick.dur < MIN_NOTE_DURATION
    /\ tick.dur > 0

\* C3: once stop() has returned, and until the next start(), no callback is
\* invoked.
C3_NoCallbackAfterStop ==
    ~lateCallback

\* C4: once stop() has returned and every loop thread has exited, no stream
\* opened by a loop thread is still open.
C4_StopReleasesStream ==
    (stopped /\ \A t \in Threads : pc[t] \in {"unborn", "done"})
        => \A t \in Threads : streams[t] # "open"

\* C5: at most one thread is past the test of line 125, in the loop body of
\* process_audio, at any time.
C5_SingleLoopContext ==
    Cardinality({t \in Threads : InLoop(t)}) <= 1

\* C6: on a tick that classifies a symbol other than the symbol of the run
\* in progress, the callback is invoked, for the run's symbol, exactly when
\* the tick's time minus note_start_time is at least MIN_NOTE_DURATION, and in
\* both cases the session becomes Active(detected symbol, tick's time).
C6_SymbolChange ==
    [][(current_note # None /\ tick'.det # None /\ tick'.det # current_note) =>
          /\ (tick'.cb # None) <=> (clock' - note_start_time >= MIN_NOTE_DURATION)
          /\ (tick'.cb # None => tick'.cb = current_note)
          /\ current_note' = tick'.det
          /\ note_start_time' = clock']_vars

\* C7: on a tick with no classification in a run, where now is the time read
\* at line 176: if now - last_detection_time < SILENCE_THRESHOLD the session
\* is unchanged and nothing is emitted; otherwise the run's duration is
\* last_detection_time - note_start_time, the callback is invoked exactly when
\* that duration is at least MIN_NOTE_DURATION, and the session becomes Idle.
C7_SilentTick ==
    [][(current_note # None /\ tick'.det = None) =>
          IF clock' - last_detection_time < SILENCE_THRESHOLD
          THEN tick'.cb = None /\ UNCHANGED sessionVars
          ELSE /\ (tick'.cb # None) <=>
                      (last_detection_time - note_start_time >= MIN_NOTE_DURATION)
               /\ (tick'.cb # None => tick'.cb = current_note)
               /\ tick'.dur = last_detection_time - note_start_time
               /\ current_note' = None]_vars

C9_DropoutDoesNotSplit ==
    /\ tick.inGap =>
           /\ tick.cb = None
           /\ gap.on
           /\ current_note = gap.note
           /\ note_start_time = gap.t0
    /\ tick.resumed =>
           /\ tick.cb = None
           /\ current_note = tick.det
           /\ note_start_time = tick.gapT0
           /\ last_detection_time = clock

\* C9 witness: a run has resumed after a dropout that began later than its start.
C9_Witness ==
    /\ tick.resumed
    /\ current_note = "A"
    /\ tick.quiet > 0
    /\ note_start_time < last_detection_time - tick.quiet

\* C10: a run is emitted at most once, also when the callback raises: no tick
\* invokes the callback for a run for which it has been invoked before.
C10_RaisedCallbackStillCloses ==
    tick.calls <= 1

\* What the caller of start() gets back, lines 195-201: start() creates the
\* thread, prints that recognition started and returns; it has no other way
\* to end.
StartResult(t) == IF pc[t] = "unborn" THEN "none" ELSE "started"

\* process_audio, lines 117-121: the open raised, and the thread returned
\* before the loop.
OpenFailed(t) == pc[t] = "done" /\ streams[t] = "unopened"

\* C11: when the audio stream of a start() cannot be opened, the caller of
\* that start() is told so, start() does not end as a successful start (and
\* the thread of that start reads no block and calls no callback, which the
\* thread's path from "open" straight to "done" gives).
C11_OpenFailureReported ==
    \A t \in Threads : OpenFailed(t) => StartResult(t) = "failed"

\* A read that raised at line 128 and is in the handler.
ReadFailed(t) == pc[t] = "handler" /\ local[t].err = "read"

\* C12 as stated: a read that raises is, for the session, a tick that
\* classified nothing, so a run whose last detection is SILENCE_THRESHOLD old
\* is closed by it.
C12_FailedReadIsSilentTick ==
    [][\A t \in Threads :
          (pc[t] = "read" /\ pc'[t] = "handler") =>
             LET s == Detect(DROPOUT_TOLERANCE, Session, None, clock, clock, FALSE).sess IN
             /\ current_note' = s.note
             /\ note_start_time' = s.start
             /\ last_detection_time' = s.last]_vars

\* C12, amended: a read that raises does not end the loop and calls no
\* callback; the block is skipped, the session is left as it was (a run in
\* progress stays open however old its last detection is), and the thread
\* goes through the handler back to the loop test, which sends it to the next
\* read while running is true.
C12_FailedReadSkipsBlock ==
    [][\A t \in Threads :
          /\ (pc[t] = "read" /\ pc'[t] # "read") =>
                \/ pc'[t] = "process"
                \/ /\ pc'[t] = "handler"
                   /\ UNCHANGED sessionVars
                   /\ inCallback' = inCallback
          /\ (ReadFailed(t) /\ pc'[t] # "handler") =>
                /\ pc'[t] = "loop"
                /\ UNCHANGED sessionVars
                /\ inCallback' = inCallback
          /\ (pc[t] = "loop" /\ pc'[t] # "loop" /\ running) => pc'[t] = "read"]_vars

C12_Witness ==
    \E t \in Threads :
        /\ ReadFailed(t)
        /\ current_note # None
        /\ clock - last_detection_time >= SILENCE_THRESHOLD

\* A callback that raised, lines 167 and 187, and is in the handler.
CallbackFailed(t) == pc[t] = "handler" /\ local[t].err = "callback"

\* C13: a callback that raises does not end the loop: the thread goes from
\* the callback to the handler, from the handler to the loop test, and from
\* the loop test to the next read while running is true.
C13_CallbackRaiseKeepsLoop ==
    [][\A t \in Threads :
          /\ (pc[t] = "callback" /\ pc'[t] # "callback") => pc'[t] \in {"handler", "loop"}
          /\ (CallbackFailed(t) /\ pc'[t] # "handler") => pc'[t] = "loop"
          /\ (pc[t] = "loop" /\ pc'[t] # "loop" /\ running) => pc'[t] = "read"
          /\ (pc'[t] = "done" /\ pc[t] # "done") => pc[t] \in {"open", "loop"}]_vars

C13_Witness ==
    \E t \in Threads : CallbackFailed(t) /\ running

\* C14: no callback begins while another callback is running.
C14_NoReentrantCallback == inCallback <= 1

\* A thread that is not running process_audio.
NotAlive(t) == pc[t] \in {"unborn", "done"}

\* C15: when a thread enters the loop after its start(), running being true
\* and no other thread being alive, the session is empty.
C15_RestartBeginsEmpty ==
    [][\A t \in Threads :
          (/\ pc[t] = "open"
           /\ pc'[t] = "loop"
           /\ running
           /\ \A u \in Threads : u # t => NotAlive(u)) => current_note = None]_vars

(***************************************************************************)
(* The frequency front end: lines 63-100 and 131-149.                      *)
(***************************************************************************)
SAMPLE_RATE == 44100
CHUNK_SIZE == 4096
FREQ_BUFFER_MAXLEN == 5
MIN_FREQUENCY == 500
MAX_FREQUENCY == 3000

\* h Hz, in units of 1/8192 Hz.
Hz(h) == h * 8192

\* Line 81: peak_index * SAMPLE_RATE / len(audio_array), in units of 1/8192 Hz.
Bin(peak_index) == peak_index * SAMPLE_RATE * (Hz(1) \div CHUNK_SIZE)

\* The peak bins of the blocks of SpecStab: 495 Hz (below the range), 646 Hz,
\* 807 Hz, 904 Hz, 1077 Hz and 3004 Hz (above the range).
PeakBins == {46, 60, 75, 84, 100, 279}

\* NOTE_RANGES with the interval of D reaching the low end of E.
NOTE_RANGES_overlapping ==
    << [note |-> "C", low |-> 500, high |-> 790],
       [note |-> "D", low |-> 900, high |-> 1001],
       [note |-> "E", low |-> 1001, high |-> 1200],
       [note |-> "F", low |-> 1210, high |-> 1300],
       [note |-> "G", low |-> 1310, high |-> 3000],
       [note |-> "A", low |-> 800, high |-> 881] >>

\* Lines 30-37, in the order of the dict.
NOTE_RANGES ==
    << [note |-> "C", low |-> 500, high |-> 790],
       [note |-> "D", low |-> 900, high |-> 1000],
       [note |-> "E", low |-> 1001, high |-> 1200],
       [note |-> "F", low |-> 1210, high |-> 1300],
       [note |-> "G", low |-> 1310, high |-> 3000],
       [note |-> "A", low |-> 800, high |-> 881] >>

\* get_frequency, lines 63-87, for a block that is loud enough or not (line
\* 70) and whose FFT peaks at peak_index.
get_frequency(loud, peak_index) ==
    IF ~loud
    THEN NoFrequency
    ELSE IF Bin(peak_index) < Hz(MIN_FREQUENCY) \/ Bin(peak_index) > Hz(MAX_FREQUENCY)
         THEN NoFrequency
         ELSE Bin(peak_index)

\* Lines 96-98 from the i-th entry of the table on, with exclusive ends.
RECURSIVE ScanRanges_exclusive(_, _, _)
ScanRanges_exclusive(ranges, f, i) ==
    IF i > Len(ranges)
    THEN None
    ELSE IF Hz(ranges[i].low) < f /\ f < Hz(ranges[i].high)
         THEN ranges[i].note
         ELSE ScanRanges_exclusive(ranges, f, i + 1)

\* Lines 96-100 from the i-th entry of the table on: the first interval that
\* holds f, ends included.
RECURSIVE ScanRanges(_, _, _)
ScanRanges(ranges, f, i) ==
    IF i > Len(ranges)
    THEN None
    ELSE IF Hz(ranges[i].low) <= f /\ f <= Hz(ranges[i].high)
         THEN ranges[i].note
         ELSE ScanRanges(ranges, f, i + 1)

\* frequency_to_note with exclusive ends.
frequency_to_note_exclusive(f) ==
    IF f = NoFrequency THEN None ELSE ScanRanges_exclusive(NOTE_RANGES, f, 1)

\* frequency_to_note, lines 89-100.
frequency_to_note(f) ==
    IF f = NoFrequency THEN None ELSE ScanRanges(NOTE_RANGES, f, 1)

\* deque(maxlen=5).append, line 135: the oldest reading leaves a full window.
AppendBounded(buf, f) ==
    IF Len(buf) >= FREQ_BUFFER_MAXLEN THEN Append(Tail(buf), f) ELSE Append(buf, f)

\* Line 140.
NonNone(buf) == SelectSeq(buf, LAMBDA f : f # NoFrequency)

\* s with x inserted before its first element greater than x.
RECURSIVE Insert(_, _)
Insert(s, x) ==
    IF s = << >> THEN << x >>
    ELSE IF x <= Head(s) THEN << x >> \o s
         ELSE << Head(s) >> \o Insert(Tail(s), x)

\* s in ascending order.
RECURSIVE Sorted(_)
Sorted(s) == IF s = << >> THEN << >> ELSE Insert(Sorted(Tail(s)), Head(s))

\* The sum of s.
RECURSIVE Sum(_)
Sum(s) == IF s = << >> THEN 0 ELSE Head(s) + Sum(Tail(s))

\* Median as the mean of the values.
Median_asMean(s) == Sum(s) \div Len(s)

\* np.median, line 142: the middle element of the sorted values, or the mean
\* of the two middle elements.
Median(s) ==
    LET o == Sorted(s)
        n == Len(s)
    IN  IF n % 2 = 1
        THEN o[(n + 1) \div 2]
        ELSE (o[n \div 2] + o[n \div 2 + 1]) \div 2

\* StableFrequency taking the median from three present values on.
StableFrequency_fromThree(buf, f) ==
    IF f # NoFrequency
    THEN IF Len(NonNone(buf)) >= 3 THEN Median(NonNone(buf)) ELSE f
    ELSE NoFrequency

\* Lines 138-146, after the append of line 135.
StableFrequency(buf, f) ==
    IF f # NoFrequency
    THEN IF Len(NonNone(buf)) >= 2 THEN Median(NonNone(buf)) ELSE f
    ELSE NoFrequency

\* process_audio, lines 131-149, for one block.
Feed(loud, peak_index) ==
    /\ frequency' = get_frequency(loud, peak_index)
    /\ freq_buffer' = AppendBounded(freq_buffer, frequency')
    /\ stable_frequency' = StableFrequency(freq_buffer', frequency')
    /\ detected_note' = frequency_to_note(stable_frequency')
    /\ UNCHANGED << running, stream, clock >>
    /\ UNCHANGED sessionVars
    /\ UNCHANGED historyVars
    /\ UNCHANGED lifeVars
    /\ UNCHANGED serverVars
    /\ UNCHANGED wireVars

NextStab == \E loud \in BOOLEAN, peak_index \in PeakBins : Feed(loud, peak_index)

SpecStab == InitLife /\ [][NextStab]_vars

(***************************************************************************)
(* frequency_to_note on its own.                                           *)
(***************************************************************************)
ProbeLow == 495
ProbeHigh == 1315
ProbeTopLow == 2995
ProbeTopHigh == 3005

\* The frequencies frequency_to_note is applied to: every half Hz of
\* ProbeLow..ProbeHigh and of ProbeTopLow..ProbeTopHigh, and None.
Probes ==
    {n * (Hz(1) \div 2) : n \in (2 * ProbeLow .. 2 * ProbeHigh)
                                \cup (2 * ProbeTopLow .. 2 * ProbeTopHigh)}
        \cup {NoFrequency}

\* Line 149 for a given stable_frequency.
Classify(f) ==
    /\ stable_frequency' = f
    /\ detected_note' = frequency_to_note(f)
    /\ UNCHANGED << freq_buffer, frequency >>
    /\ UNCHANGED << running, stream, clock >>
    /\ UNCHANGED sessionVars
    /\ UNCHANGED historyVars
    /\ UNCHANGED lifeVars
    /\ UNCHANGED serverVars
    /\ UNCHANGED wireVars

NextClassify == \E f \in Probes : Classify(f)

SpecClassify == InitLife /\ [][NextClassify]_vars

(***************************************************************************)
(* Properties of the front end.                                            *)
(***************************************************************************)
\* The last n elements of s.
LastN(s, n) == IF Len(s) <= n THEN s ELSE SubSeq(s, Len(s) - n + 1, Len(s))

\* The indices of the present values of the window w.
Present(w) == {k \in 1..Len(w) : w[k] # NoFrequency}

\* The r-th smallest of the present values of w: the value with fewer than r
\* present values below it and at least r present values up to it.
OrderStat(w, r) ==
    CHOOSE x \in {w[k] : k \in Present(w)} :
        /\ Cardinality({k \in Present(w) : w[k] < x}) < r
        /\ Cardinality({k \in Present(w) : w[k] <= x}) >= r

\* The median of the present values of w.
MedianOfPresent(w) ==
    LET n == Cardinality(Present(w))
    IN  (OrderStat(w, (n + 1) \div 2) + OrderStat(w, n \div 2 + 1)) \div 2

OutlierAt(v, i) ==
    /\ Len(freq_buffer) = 5
    /\ v # NoFrequency
    /\ \A k \in 1..5 : k # i => freq_buffer[k] = v

\* C17: after four readings v and one outlier at an interior position among
\* them, the output for the fifth reading is v.
C17_OutlierRejected ==
    \A i \in 2..4 : \A k \in 1..Len(freq_buffer) :
        OutlierAt(freq_buffer[k], i) => stable_frequency = freq_buffer[k]

C17_Witness ==
    \E i \in 2..4 :
        /\ OutlierAt(freq_buffer[1], i)
        /\ freq_buffer[i] \notin {freq_buffer[1], NoFrequency}
        /\ stable_frequency = freq_buffer[1]

\* The interval r holds the frequency f, ends included.
Holds(r, f) == Hz(r.low) <= f /\ f <= Hz(r.high)

\* C18: frequency_to_note returns the symbol whose interval holds the
\* frequency, ends included, and None for a frequency in no interval and for
\* None.
C18_Classification ==
    /\ detected_note \in Notes \cup {None}
    /\ IF stable_frequency = NoFrequency
       THEN detected_note = None
       ELSE \A i \in 1..Len(NOTE_RANGES) :
               detected_note = NOTE_RANGES[i].note <=> Holds(NOTE_RANGES[i], stable_frequency)

C18_Witness ==
    /\ stable_frequency = Hz(881)
    /\ detected_note = "A"

\* The last interval of the table that holds f, from the i-th entry down.
RECURSIVE LastMatch(_, _, _)
LastMatch(ranges, f, i) ==
    IF i = 0
    THEN None
    ELSE IF Holds(ranges[i], f) THEN ranges[i].note ELSE LastMatch(ranges, f, i - 1)

\* C19: the table holds 6 symbols, each with low <= high, the intervals are
\* pairwise disjoint, so a frequency is in at most one interval and the
\* classification is the same whatever the order of the scan.
C19_DisjointRanges ==
    /\ Len(NOTE_RANGES) = 6
    /\ {NOTE_RANGES[i].note : i \in 1..Len(NOTE_RANGES)} = Notes
    /\ \A i \in 1..Len(NOTE_RANGES) : NOTE_RANGES[i].low <= NOTE_RANGES[i].high
    /\ \A i, j \in 1..Len(NOTE_RANGES) :
          i # j => \/ NOTE_RANGES[i].high < NOTE_RANGES[j].low
                   \/ NOTE_RANGES[j].high < NOTE_RANGES[i].low
    /\ stable_frequency # NoFrequency =>
          /\ Cardinality({i \in 1..Len(NOTE_RANGES) :
                             Holds(NOTE_RANGES[i], stable_frequency)}) <= 1
          /\ detected_note = LastMatch(NOTE_RANGES, stable_frequency, Len(NOTE_RANGES))

C19_Witness ==
    /\ stable_frequency = Hz(1001)
    /\ detected_note = "E"

(***************************************************************************)
(* The control server and its mouse controller: src/control_server.py and  *)
(* src/mouse_controller.py.  Each control action is one step.              *)
(***************************************************************************)
MOVE_STEP == 50
MaxReach == 300   \* moves are made while |relative_x| and |relative_y| stay within MaxReach

\* CARD_OFFSETS, lines 19-24 of mouse_controller.py.
CARD_OFFSETS ==
    << [x |-> 0, y |-> 0], [x |-> 103, y |-> 0], [x |-> 180, y |-> 0], [x |-> 270, y |-> 0] >>

Cards == 1..4

\* The card numbers a select_card command carries: the cards and two others.
CommandCards == 0..5

\* The fields of the MouseController.
Controller ==
    [state |-> state, card |-> current_card, pressed |-> mouse_pressed,
     x |-> relative_x, y |-> relative_y, button |-> button, fault |-> buttonFault]

\* VirtualMouse.mouse_down and mouse_up (virtual_mouse.py lines 49-61): the
\* button event is sent whatever
\* the button's position; the history notes an event that repeats the last.
MouseDown(m) == [m EXCEPT !.button = "down", !.fault = m.fault \/ m.button = "down"]
MouseUp(m) == [m EXCEPT !.button = "up", !.fault = m.fault \/ m.button = "up"]

\* Release without the test of mouse_pressed.
Release_always(m) == [MouseUp(m) EXCEPT !.pressed = FALSE]

\* Lines 52-54, 81-83, 119-121: the button is released if mouse_pressed.
Release(m) == IF m.pressed THEN [MouseUp(m) EXCEPT !.pressed = FALSE] ELSE m

\* MouseController.place_card.
place_card(m) ==
    IF m.state = "idle"
    THEN m
    ELSE [Release(m) EXCEPT !.x = 0, !.y = 0, !.state = "idle", !.card = NoCard]

\* MouseController.reset.
reset(m) ==
    [Release(m) EXCEPT !.state = "idle", !.card = NoCard, !.pressed = FALSE,
                       !.x = 0, !.y = 0]

\* MouseController.select_card.
select_card(m, card_number) ==
    IF card_number \notin Cards
    THEN m
    ELSE LET m1 == IF m.state # "idle" THEN [reset(m) EXCEPT !.x = 0, !.y = 0] ELSE m
             m2 == Release(m1)
         IN  [m2 EXCEPT !.x = CARD_OFFSETS[card_number].x,
                        !.y = CARD_OFFSETS[card_number].y,
                        !.state = "card_selected",
                        !.card = card_number]

\* MouseController.move_up, move_down, move_left, move_right.
move(m, dx, dy) ==
    IF m.state = "idle"
    THEN m
    ELSE LET m1 == IF m.state = "card_selected"
                   THEN [MouseDown(m) EXCEPT !.pressed = TRUE, !.state = "placing"]
                   ELSE m
         IN  [m1 EXCEPT !.x = m1.x + dx, !.y = m1.y + dy]

move_up(m) == move(m, 0, 0 - MOVE_STEP)
move_down(m) == move(m, 0, MOVE_STEP)
move_left(m) == move(m, 0 - MOVE_STEP, 0)
move_right(m) == move(m, MOVE_STEP, 0)

\* The controller method a control action other than card selection calls.
Method(action, m) ==
    CASE action = "move_up" -> move_up(m)
      [] action = "move_down" -> move_down(m)
      [] action = "move_left" -> move_left(m)
      [] action = "move_right" -> move_right(m)
      [] action = "place_card" -> place_card(m)
      [] action = "reset" -> reset(m)

PlainActions == {"move_up", "move_down", "move_left", "move_right", "place_card", "reset"}

InReach(m) ==
    /\ m.x <= MaxReach /\ 0 - m.x <= MaxReach
    /\ m.y <= MaxReach /\ 0 - m.y <= MaxReach

\* The controller's fields become those of m.
SetController(m) ==
    /\ InReach(m)
    /\ state' = m.state
    /\ current_card' = m.card
    /\ mouse_pressed' = m.pressed
    /\ relative_x' = m.x
    /\ relative_y' = m.y
    /\ button' = m.button
    /\ buttonFault' = m.fault

\* cycle_card_select, lines 32-35: the next value of current_card_cycle.
NextCycle == IF last_action_was_card_select THEN (current_card_cycle + 1) % 4 ELSE 0

\* handle_command, lines 42-73, for the commands that act on the controller:
\* what it does to the server and to the controller.
Handle(action, card) ==
    IF action = "cycle_card"
    THEN /\ current_card_cycle' = NextCycle
         /\ last_action_was_card_select' = TRUE
         /\ SetController(select_card(Controller, NextCycle + 1))
         /\ lastControl' = "cycle"
    ELSE /\ SetController(IF action = "select_card"
                          THEN select_card(Controller, card)
                          ELSE Method(action, Controller))
         /\ last_action_was_card_select' = FALSE
         /\ lastControl' = "other"
         /\ UNCHANGED current_card_cycle

\* A command handled by handle_command.
HandleCommand(action, card) ==
    /\ Handle(action, card)
    /\ UNCHANGED << running, stream, clock >>
    /\ UNCHANGED sessionVars
    /\ UNCHANGED historyVars
    /\ UNCHANGED lifeVars
    /\ UNCHANGED frontVars
    /\ UNCHANGED wireVars

\* run, lines 93-102: a hotkey calls the controller's method directly.
Hotkey(action, card) ==
    /\ SetController(IF action = "select_card"
                     THEN select_card(Controller, card)
                     ELSE Method(action, Controller))
    /\ lastControl' = "other"
    /\ UNCHANGED << current_card_cycle, last_action_was_card_select >>
    /\ UNCHANGED << running, stream, clock >>
    /\ UNCHANGED sessionVars
    /\ UNCHANGED historyVars
    /\ UNCHANGED lifeVars
    /\ UNCHANGED frontVars
    /\ UNCHANGED wireVars

NextServer ==
    \/ HandleCommand("cycle_card", 0)
    \/ \E card \in CommandCards : HandleCommand("select_card", card)
    \/ \E action \in PlainActions : HandleCommand(action, 0)
    \/ \E card \in Cards : Hotkey("select_card", card)
    \/ \E action \in PlainActions : Hotkey(action, 0)

SpecServer == InitLife /\ [][NextServer]_vars

(***************************************************************************)
(* The connection between the audio client and the control server.  The    *)
(* client writes each command as one JSON object with sendall; the server  *)
(* reads with recv(1024) and gives what one recv returned to json.loads.   *)
(* A JSON object is three pieces of bytes here: the opening brace, the     *)
(* body and the closing brace; a recv returns any non-empty prefix of the  *)
(* bytes in flight.                                                        *)
(***************************************************************************)

MaxSent == 3          \* at most MaxSent commands are sent

\* control_server.py line 124: the most one recv returns.
RECV_SIZE == 1024

\* audio_client.py lines 20-27: the commands the notes are mapped to.
WireCommands == {"cycle_card", "move_up", "place_card"}

\* audio_client.py line 53: json.dumps(command).encode('utf-8').
Encode(action) == << "{", action, "}" >>

\* control_server.py line 126: json.loads(data.decode('utf-8')) gives the
\* command when the data are exactly one whole object, and raises
\* JSONDecodeError ("error") for part of an object and for an object with
\* more data after it.
Loads(data) ==
    IF Len(data) = 3 /\ data[1] = "{" /\ data[3] = "}" /\ data[2] \in WireCommands
    THEN data[2]
    ELSE "error"

\* audio_client.py lines 46-56, send_command: the bytes of the command are
\* written to the socket behind those still in flight.
Send(action) ==
    /\ Len(sent) < MaxSent
    /\ sent' = Append(sent, action)
    /\ wire' = wire \o Encode(action)
    /\ UNCHANGED handled
    /\ UNCHANGED << running, stream, clock >>
    /\ UNCHANGED sessionVars
    /\ UNCHANGED historyVars
    /\ UNCHANGED lifeVars
    /\ UNCHANGED frontVars
    /\ UNCHANGED serverVars

\* control_server.py lines 123-139: one recv that returns n pieces, then
\* json.loads and handle_command; after JSONDecodeError the data are gone
\* and the loop goes on to the next recv.
Recv(n) ==
    /\ n >= 1 /\ n <= Len(wire) /\ n <= RECV_SIZE
    /\ wire' = SubSeq(wire, n + 1, Len(wire))
    /\ LET command == Loads(SubSeq(wire, 1, n)) IN
          IF command = "error"
          THEN /\ UNCHANGED handled
               /\ UNCHANGED serverVars
          ELSE /\ Handle(command, 0)
               /\ handled' = Append(handled, command)
    /\ UNCHANGED sent
    /\ UNCHANGED << running, stream, clock >>
    /\ UNCHANGED sessionVars
    /\ UNCHANGED historyVars
    /\ UNCHANGED lifeVars
    /\ UNCHANGED frontVars

NextWire ==
    \/ \E action \in WireCommands : Send(action)
    \/ \E n \in 1..(3 * MaxSent) : Recv(n)

SpecWire == InitLife /\ [][NextWire]_vars

\* C20: a cycle_card command that follows a cycle_card command selects the
\* card after the one the previous command selected (1 after 4), and a
\* cycle_card command that follows any other control action, socket command
\* or keyboard hotkey, selects card 1.
C20_CycleRestartsAfterOtherAction ==
    [][lastControl' = "cycle" =>
          current_card' = IF lastControl = "cycle" THEN (current_card % 4) + 1 ELSE 1]_vars

(***************************************************************************)
(* Frame properties of the detector.                                       *)
(***************************************************************************)
\* C21: a tick that classifies the symbol of the run in progress leaves
\* current_note and note_start_time as they are, sets last_detection_time to
\* the tick's time and does not call the callback.
C21_SameSymbolTick ==
    [][(current_note # None /\ tick'.det = current_note) =>
          /\ current_note' = current_note
          /\ note_start_time' = note_start_time
          /\ last_detection_time' = clock'
          /\ tick'.cb = None]_vars

C21_Witness ==
    /\ tick.branch = "same"
    /\ current_note # None
    /\ last_detection_time > note_start_time

\* C22: a tick processed while no run is in progress calls no callback; with
\* a classified symbol it begins the run of that symbol at the tick's time,
\* with no classification it leaves the session unchanged.
C22_IdleTick ==
    [][current_note = None =>
          /\ tick'.cb = None
          /\ IF tick'.det # None
             THEN /\ current_note' = tick'.det
                  /\ note_start_time' = clock'
                  /\ last_detection_time' = clock'
             ELSE UNCHANGED sessionVars]_vars

C22_Witness ==
    /\ tick.branch = "new"
    /\ current_note # None
    /\ note_start_time > 0
    /\ last_detection_time = note_start_time

\* C23: when stop() has cleared running and no start() sets it again, every
\* loop thread eventually exits and stays out of process_audio.
C23_LoopExitsAfterStop ==
    (<>[](~running)) => <>[](\A t \in Threads : NotAlive(t))

C23_Witness ==
    /\ stopped
    /\ ~running
    /\ pc[1] = "done"

\* C25: while a run is in progress, note_start_time is at most
\* last_detection_time.
C25_StartNotAfterLast ==
    current_note # None => note_start_time <= last_detection_time

\* C24: a classified symbol is the symbol of at least one raw estimate held
\* in the window.
C24_NoFabricatedSymbol ==
    detected_note # None =>
        \E k \in Present(freq_buffer) : frequency_to_note(freq_buffer[k]) = detected_note

\* C26: in every session state and for every tick, a detector with any
\* tolerance from 0 to SILENCE_THRESHOLD is, at the point where the callback
\* is called or the tick ends without a call, in the session and with the
\* callback argument of the detector with DROPOUT_TOLERANCE, which are those
\* of the tick; two such detectors given the same ticks (and the same
\* callback) therefore stay in step.
C26_ToleranceIrrelevant ==
    [][LET b == BeforeCallback(DROPOUT_TOLERANCE, Session, tick'.det, clock', clock') IN
       /\ b.cb = tick'.cb
       /\ b.branch = tick'.branch
       /\ LET after == IF b.cb = None THEN b.sess
                       ELSE AfterCallback(b.sess, b.branch, tick'.det, clock', tick'.raised)
          IN  /\ after.note = current_note'
              /\ after.start = note_start_time'
              /\ after.last = last_detection_time'
       /\ \A drop \in 0..SILENCE_THRESHOLD :
             BeforeCallback(drop, Session, tick'.det, clock', clock') = b]_vars

C26_Witness ==
    /\ tick.det = None
    /\ current_note # None
    /\ tick.quiet >= DROPOUT_TOLERANCE
    /\ tick.quiet < SILENCE_THRESHOLD

(***************************************************************************)
(* C27: after any sequence of select_card, move_up, move_down, move_left,  *)
(* move_right, place_card and reset, each run to completion, mouse_pressed *)
(* is true exactly when the state is PLACING, current_card is set exactly  *)
(* when the state is not IDLE, and the button events sent to the virtual   *)
(* mouse alternate down, up, down, ...: no press of a pressed button and   *)
(* no release of a released one.                                           *)
(***************************************************************************)
C27_ControllerConsistent ==
    /\ mouse_pressed <=> state = "placing"
    /\ (current_card # NoCard) <=> state # "idle"
    /\ mouse_pressed <=> button = "down"
    /\ ~buttonFault

\* The second card has been selected and is being dragged up or down.
C27_Witness ==
    /\ state = "placing" /\ mouse_pressed /\ button = "down"
    /\ current_card = 2
    /\ relative_y # 0

(***************************************************************************)
(* C28: every command the client sends with send_command is handled by     *)
(* handle_command exactly once and in the order sent, however the bytes    *)
(* are split or merged across the recv calls: once every byte sent has     *)
(* been received, the commands handled are the commands sent.              *)
(***************************************************************************)
C28_EveryCommandHandledOnce == wire = << >> => handled = sent

====
